---- MODULE Spec2Model ----
(***************************************************************************)
(* Motor speed control core of MF2103-Embedded: the fixed-point PI         *)
(* controller (controller.c), the PWM actuator and the encoder velocity    *)
(* estimator (peripherals.c).                                              *)
(*                                                                         *)
(* Number representation.  TLC integers are 32 bit wide.  The int64_t      *)
(* intermediates of the C code are computed exactly; the input sets below  *)
(* are chosen so that no intermediate leaves the 32-bit range (TLC stops   *)
(* with an overflow error otherwise, it never wraps silently).  A uint32_t *)
(* millisecond value is held as its residue r in [-2^31, 2^31): a negative *)
(* r stands for the tick r + 2^32, so the tick sequence -20, -10, 0, 10    *)
(* is a 32-bit wrap of the millisecond counter.                            *)
(***************************************************************************)
EXTENDS Integers, Sequences, FiniteSets, TLC

VARIABLES
    \* controller.c: run-time tunable configuration (volatile globals)
    Kp, Ki, U_PER_RPM, ERR_DEADBAND_RPM, INT_WINDOW_RPM, I_CLAMP,
    \* controller.c: controller state (file-scope statics)
    integrator, last_update_ms, first_call,
    \* application.c: globals handed to / returned by the periodic functions
    reference, velocity, control, millisec,
    \* peripherals.c: registers of the PWM timer (htim3)
    ARR, CCR1, CCR2,
    \* peripherals.c: counter register of the encoder timer (htim1)
    CNT,
    \* peripherals.c: estimator configuration and debug output (volatile globals)
    g_vel_window_ms, g_vel_raw_rpm,
    \* peripherals.c: statics of Peripheral_Encoder_CalculateVelocity
    prev_count, prev_ms, delta_count_buf, delta_ms_buf, buf_index, buf_count,
    sum_delta_count, sum_delta_ms, vel_rpm,
    \* observation of the most recent operation
    op,          \* which operation ran last
    pre,         \* controller state and control value before that operation
    reset_seen,  \* Controller_Reset has hit a running controller with integrator # 0
    enc_pre,     \* estimator state, arguments and observations before that operation
    enc_calls,   \* number of estimator calls so far
    last_read,   \* raw counter value read by the last call that was not a duplicate
    dup_read,    \* raw counter value read by a duplicate call since then, -1 if none
    scen,        \* number of calls so far if they all followed the wrap scenario, else 0
    acc,         \* the controller calls since its first call: their number n, as long
                 \* as they all had the same reference, measurement and period
                 \* (n = 0 right after the first call, n = -1 otherwise)
    hist,        \* the samples <<delta_count, delta_ms>> recorded since the last
                 \* initialisation of the estimator, oldest first
    \* the millisecond tick Main_GetTickMillisec() returns (below 2^31 here)
    tick,
    \* position of the main thread in Application_Loop
    pc,
    log,         \* the calls Application_Loop has made: <<function, millisec>>
    inv_steps    \* control steps completed by the current invocation of the loop

cfgvars  == <<Kp, Ki, U_PER_RPM, ERR_DEADBAND_RPM, INT_WINDOW_RPM, I_CLAMP>>
ctlvars  == <<integrator, last_update_ms, first_call>>
appvars  == <<reference, velocity, control, millisec>>
pwmvars  == <<ARR, CCR1, CCR2>>
encvars  == <<CNT, g_vel_window_ms, g_vel_raw_rpm, prev_count, prev_ms,
              delta_count_buf, delta_ms_buf, buf_index, buf_count,
              sum_delta_count, sum_delta_ms, vel_rpm>>
encobs   == <<enc_pre, enc_calls, last_read, dup_read, scen, hist>>
obsvars  == <<op, pre, reset_seen, acc>>
loopvars == <<tick, pc, log, inv_steps>>
vars     == <<cfgvars, ctlvars, appvars, pwmvars, encvars, encobs, obsvars,
              loopvars>>

(* ===================== Units & scaling ===================== *)

CTRL_MAX  == 1073741823
CTRL_MIN  == -1073741824
Q15_ONE   == 32768
RPM_SCALE == 4000
CTRL_MAG_MAX == 1073741824
ENCODER_PPR == 512
ENCODER_COUNTS_PER_REV == ENCODER_PPR * 4
BUF_N == 32
PERIOD_CTRL == 10
PERIOD_REF == 4000

(* ===================== Bounds of the model ===================== *)

\* last millisecond value a caller passes
MaxMs == 40

\* period between two calls, 0 = the same tick again
DtSet == {0, 10}

\* millisecond value of the clock when the program starts (-20 = 2^32 - 20)
StartMsSet == {-20, 0, 5}

RefSet  == {-11000, -2000, 100, 2000, 11000}
MeasSet == {0, 95, 1900}

\* reference and measurement pairs with a small error under a saturating
\* feed-forward, and one with an error of 300 rpm
NearPairs == {<<11000, 10900>>, <<11000, 11100>>, <<-11000, -10900>>,
              <<11000, 10700>>}

\* the (reference, measurement) pairs a caller passes
InputSet == (RefSet \X MeasSet) \cup NearPairs

\* Configurations: the values compiled into controller.c, the gains of the
\* feed-forward + P scenario, a pure I controller with a tight clamp, a
\* pure I controller with the compiled Ki and deadband, and a pure P
\* controller without deadband.
Configs ==
    { [Kp |-> 1300,  Ki |-> 4000,  U |-> 99000, DB |-> 10, IW |-> 200, IC |-> 300000000],
      [Kp |-> 1000,  Ki |-> 0,     U |-> 99000, DB |-> 10, IW |-> 200, IC |-> 300000000],
      [Kp |-> 0,     Ki |-> 32767, U |-> 0,     DB |-> 0,  IW |-> 200, IC |-> 100000],
      [Kp |-> 0,     Ki |-> 4000,  U |-> 0,     DB |-> 10, IW |-> 200, IC |-> 100000],
      [Kp |-> 32767, Ki |-> 0,     U |-> 0,     DB |-> 0,  IW |-> 200, IC |-> 300000000] }

\* the values compiled into controller.c
DefaultConfig ==
    [Kp |-> 1300, Ki |-> 4000, U |-> 99000, DB |-> 10, IW |-> 200, IC |-> 300000000]

\* period register of the PWM timer (16 bit), set by the board initialisation
ARRSet == {1, 2, 999, 4095, 65535}

\* control values handed to the actuator: every magnitude with both signs,
\* values outside [CTRL_MIN, CTRL_MAX] included.  -2^31 itself is left out
\* because its magnitude is not a 32-bit integer.
MagSet == {1, 2, 1000, 1073741, 1073742, 2147483, 2147484, 16777216,
           268435456, 536870911, 536870912, 536870913, 805306368,
           1073741822, 1073741823, 1073741824, 1073741825, 1610612736,
           2147483647}
CtrlSet == {0} \cup MagSet \cup { -m : m \in MagSet }

\* last millisecond value passed to the estimator
MaxEncMs == 60

\* number of estimator calls with freely chosen inputs; a run that follows
\* the wrap scenario from its first call continues to the scenario's end
MaxEncCalls == 4

\* period between two estimator calls, 0 = the same tick again
EncDtSet == {0, 10, 30}

\* millisecond value of the clock when the estimator is first used
\* (-10 = 2^32 - 10: the first or second call then carries ms = 0)
EncStartMsSet == {-10, 10}

\* movement of the encoder counter between two calls, modulo 2^16
StepSet == {0, 16, 100, 32560}

\* number of calls of a caller with a constant period and a constant speed
MaxLongCalls == 40

\* the periods of such a caller; 70000 ms does not fit a uint16_t slot
LongDtSet == {0, 10, 30, 70000}

\* estimator windows: the compiled 40 ms and one that lets the ring fill up
LongWindowSet == {40, 1000}

\* number of milliseconds the tick advances while Application_Loop runs
MaxTicks == 32

\* value of the tick when Application_Loop is first entered
TickStartSet == {0, 3990}

\* encoder counts per millisecond of a turning motor
CountsPerMsSet == {7}

\* the wrap scenario: raw reads 0, 100, 200, 32760, -32760, -32660
ScenarioReads  == <<0, 100, 200, 32760, -32760, -32660>>
ScenarioDeltas == <<100, 100, 32560, 16, 100>>

(* ===================== Helpers ===================== *)

\* C integer division: truncation toward zero (b > 0)
TruncDiv(a, b) == IF a >= 0 THEN a \div b ELSE -((-a) \div b)

\* sat_ctrl that forgets the lower limit
sat_ctrl_nolow(x) ==
    IF x > CTRL_MAX THEN CTRL_MAX ELSE x

sat_ctrl(x) ==
    IF x > CTRL_MAX THEN CTRL_MAX
    ELSE IF x < CTRL_MIN THEN CTRL_MIN
    ELSE x

clamp_q15(x) ==
    IF x > 32767 THEN 32767
    ELSE IF x < -32768 THEN -32768
    ELSE x

iabs32(x) == IF x < 0 THEN -x ELSE x

clamp_i32(x, lo, hi) ==
    IF x > hi THEN hi
    ELSE IF x < lo THEN lo
    ELSE x

(* ===================== Controller_PIController ===================== *)

\* the controller's static state as one value
CtlState == [integrator |-> integrator, last_update_ms |-> last_update_ms,
             first_call |-> first_call]

\* a first call that does not latch the time
PI_first_nolatch(st, now_ms) ==
    [ret |-> 0, integrator |-> 0, last_update_ms |-> st.last_update_ms, first_call |-> 0]

\* first call after reset: latch the time, clear the integrator, return 0
PI_first(st, now_ms) ==
    [ret |-> 0, integrator |-> 0, last_update_ms |-> now_ms, first_call |-> 0]

\* a duplicate tick handled like a first call: the integrator is cleared
PI_dup_clear(st, now_ms) ==
    [ret |-> 0, integrator |-> 0, last_update_ms |-> now_ms,
     first_call |-> st.first_call]

\* delta_ms == 0: the time was already stored, return 0
PI_dup(st, now_ms) ==
    [ret |-> 0, integrator |-> st.integrator, last_update_ms |-> now_ms,
     first_call |-> st.first_call]

\* the error without the deadband
PI_err_rpm_nodeadband(ref_rpm, meas_rpm) == ref_rpm - meas_rpm

\* deadbanded error
PI_err_rpm(ref_rpm, meas_rpm) ==
    LET e == ref_rpm - meas_rpm
    IN  IF iabs32(e) <= ERR_DEADBAND_RPM THEN 0 ELSE e

\* the scaling with a division that rounds toward minus infinity
PI_err_q15_floor(err_rpm) == clamp_q15((err_rpm * Q15_ONE) \div RPM_SCALE)

\* error in Q15 of RPM_SCALE, the division truncating toward zero
PI_err_q15(err_rpm) == clamp_q15(TruncDiv(err_rpm * Q15_ONE, RPM_SCALE))

PI_ff(ref_rpm) == sat_ctrl(U_PER_RPM * ref_rpm)

PI_p_term(err_q15) == sat_ctrl(Kp * err_q15)

\* an integration window 100 rpm wider than configured
PI_in_window_wide(err_rpm) == iabs32(err_rpm) <= INT_WINDOW_RPM + 100

\* integrate only when close to target
PI_in_window(err_rpm) == iabs32(err_rpm) <= INT_WINDOW_RPM

\* an integrator update without the I_CLAMP limit
PI_integrator_candidate_noclamp(integ, err_rpm, err_q15, delta_ms) ==
    IF PI_in_window(err_rpm)
    THEN sat_ctrl(integ + TruncDiv(Ki * err_q15 * delta_ms, 1000))
    ELSE integ

\* I update only when close enough
PI_integrator_candidate(integ, err_rpm, err_q15, delta_ms) ==
    IF PI_in_window(err_rpm)
    THEN LET di == TruncDiv(Ki * err_q15 * delta_ms, 1000)
         IN  clamp_i32(sat_ctrl(integ + di), -I_CLAMP, I_CLAMP)
    ELSE integ

\* no anti-windup: the candidate is always committed
PI_commit_always(integ, cand, ff, p_term, err_q15) == cand

\* anti-windup: commit the candidate unless it pushes further into saturation
PI_commit(integ, cand, ff, p_term, err_q15) ==
    LET ctrl_candidate == ff + p_term + cand
        ctrl_sat       == sat_ctrl(ctrl_candidate)
    IN  IF ctrl_sat = ctrl_candidate THEN cand
        ELSE LET pushes_further ==
                     \/ (ctrl_candidate > CTRL_MAX /\ err_q15 > 0)
                     \/ (ctrl_candidate < CTRL_MIN /\ err_q15 < 0)
             IN  IF ~pushes_further THEN cand ELSE integ

\* a call with delta_ms > 0 that leaves last_update_ms as it was
PI_run_nolatch(st, ref_rpm, meas_rpm, now_ms, delta_ms) ==
    LET err_rpm == PI_err_rpm(ref_rpm, meas_rpm)
        err_q15 == PI_err_q15(err_rpm)
        ff      == PI_ff(ref_rpm)
        p_term  == PI_p_term(err_q15)
        cand    == PI_integrator_candidate(st.integrator, err_rpm, err_q15, delta_ms)
        integ   == PI_commit(st.integrator, cand, ff, p_term, err_q15)
    IN  [ret |-> sat_ctrl(ff + p_term + integ), integrator |-> integ,
         last_update_ms |-> st.last_update_ms, first_call |-> st.first_call]

\* the control law of a call with delta_ms > 0
PI_run(st, ref_rpm, meas_rpm, now_ms, delta_ms) ==
    LET err_rpm == PI_err_rpm(ref_rpm, meas_rpm)
        err_q15 == PI_err_q15(err_rpm)
        ff      == PI_ff(ref_rpm)
        p_term  == PI_p_term(err_q15)
        cand    == PI_integrator_candidate(st.integrator, err_rpm, err_q15, delta_ms)
        integ   == PI_commit(st.integrator, cand, ff, p_term, err_q15)
    IN  [ret |-> sat_ctrl(ff + p_term + integ), integrator |-> integ,
         last_update_ms |-> now_ms, first_call |-> st.first_call]

\* the whole function: result and new state
PI_call(st, ref_rpm, meas_rpm, now_ms) ==
    IF st.first_call = 1 THEN PI_first(st, now_ms)
    ELSE LET delta_ms == now_ms - st.last_update_ms
         IN  IF delta_ms = 0 THEN PI_dup(st, now_ms)
             ELSE PI_run(st, ref_rpm, meas_rpm, now_ms, delta_ms)

\* which path a call takes
PI_path(st, now_ms) ==
    IF st.first_call = 1 THEN "pi_first"
    ELSE IF now_ms - st.last_update_ms = 0 THEN "pi_dup" ELSE "pi_run"

(* ===================== PWM ===================== *)

\* Saturate controller input to the allowed Q30 range.
clamp_ctrl(x) ==
    IF x > CTRL_MAX THEN CTRL_MAX
    ELSE IF x < CTRL_MIN THEN CTRL_MIN
    ELSE x

\* (uint32_t)(((uint64_t)mag * (uint64_t)top) >> 30) for mag <= 2^30 and
\* top <= 2^16: the 64-bit product, taken in two 15-bit pieces of mag so
\* that every intermediate fits 32 bits.
MulShr30(mag, top) ==
    IF mag = CTRL_MAG_MAX THEN top
    ELSE ((mag \div 32768) * top + ((mag % 32768) * top) \div 32768) \div 32768

\* the conversion without the upper limit on the duty
ctrl_to_counts_nolimit(ctrl, top) ==
    LET sat == clamp_ctrl(ctrl)
        mag == IF sat = CTRL_MIN THEN CTRL_MAG_MAX
               ELSE IF sat < 0 THEN -sat ELSE sat
    IN  MulShr30(mag, top)

\* Convert Q30 control value to timer counts in range [0, ARR].
ctrl_to_counts(ctrl, top) ==
    LET sat  == clamp_ctrl(ctrl)
        mag  == IF sat = CTRL_MIN THEN CTRL_MAG_MAX
                ELSE IF sat < 0 THEN -sat ELSE sat
        duty == MulShr30(mag, top)
    IN  IF duty > top - 1 THEN top - 1 ELSE duty

\* the two channels exchanged
PWM_compare_swapped(ctrl, pwm_arr) ==
    LET pwm_top     == pwm_arr + 1
        duty_counts == ctrl_to_counts(ctrl, pwm_top)
    IN  IF ctrl > 0 THEN [CCR1 |-> duty_counts, CCR2 |-> 0]
        ELSE IF ctrl < 0 THEN [CCR1 |-> 0, CCR2 |-> duty_counts]
        ELSE [CCR1 |-> 0, CCR2 |-> 0]

\* the compare registers Peripheral_PWM_ActuateMotor writes
PWM_compare(ctrl, pwm_arr) ==
    LET pwm_top     == pwm_arr + 1
        duty_counts == ctrl_to_counts(ctrl, pwm_top)
    IN  IF ctrl > 0 THEN [CCR1 |-> 0, CCR2 |-> duty_counts]
        ELSE IF ctrl < 0 THEN [CCR1 |-> duty_counts, CCR2 |-> 0]
        ELSE [CCR1 |-> 0, CCR2 |-> 0]

(* ===================== Encoder velocity ===================== *)

\* (int16_t) of a 16-bit register value
ToInt16(raw) == IF raw >= 32768 THEN raw - 65536 ELSE raw

\* (int16_t) of an int: reduction modulo 2^16 into [-32768, 32767]
CastInt16(x) == ((x + 32768) % 65536) - 32768

\* the statics of the estimator as one value
EncState ==
    [prev_count |-> prev_count, prev_ms |-> prev_ms,
     delta_count_buf |-> delta_count_buf, delta_ms_buf |-> delta_ms_buf,
     buf_index |-> buf_index, buf_count |-> buf_count,
     sum_delta_count |-> sum_delta_count, sum_delta_ms |-> sum_delta_ms,
     vel_rpm |-> vel_rpm, g_vel_raw_rpm |-> g_vel_raw_rpm]

\* (int64_t)dc * 60000 / (ENCODER_COUNTS_PER_REV * dms), truncating.  The
\* factor 32 common to 60000 and 2048 is cancelled, which leaves the
\* truncated quotient as it is and keeps the product within 32 bits.
Enc_rpm(dc, dms) ==
    TruncDiv(dc * (60000 \div 32), (ENCODER_COUNTS_PER_REV \div 32) * dms)

\* first call initialization: zero history and return 0
Enc_init(st, count, ms) ==
    [ret |-> 0,
     st  |-> [st EXCEPT !.prev_count = count, !.prev_ms = ms,
                        !.delta_count_buf = [i \in 0..(BUF_N - 1) |-> 0],
                        !.delta_ms_buf = [i \in 0..(BUF_N - 1) |-> 0],
                        !.buf_index = 0, !.buf_count = 0,
                        !.sum_delta_count = 0, !.sum_delta_ms = 0,
                        !.vel_rpm = 0]]

\* a duplicate call that also latches the counter
Enc_dup_latch(st, count, ms) ==
    [ret |-> st.vel_rpm, st |-> [st EXCEPT !.prev_ms = ms, !.prev_count = count]]

\* delta_ms == 0: return the last velocity
Enc_dup(st, count, ms) ==
    [ret |-> st.vel_rpm, st |-> [st EXCEPT !.prev_ms = ms]]

\* the difference kept as an int, without the cast to int16_t
Enc_delta_count_nocast(count, prev) == count - prev

\* (int16_t)(count - prev_count)
Enc_delta_count(count, prev) == CastInt16(count - prev)

\* the uint16_t slot value for an elapsed time; an elapsed time with bit 31
\* set (held as a negative residue) is above 65535 as well
Enc_delta_ms_slot(delta_ms) ==
    IF delta_ms < 0 \/ delta_ms > 65535 THEN 65535 ELSE delta_ms

\* remove the old sample at buf_index, add the new one, advance
Enc_insert(st, delta_count, delta_ms) ==
    LET i    == st.buf_index
        slot == Enc_delta_ms_slot(delta_ms)
        next == IF i + 1 >= BUF_N THEN 0 ELSE i + 1
    IN  [st EXCEPT
            !.sum_delta_count = st.sum_delta_count - st.delta_count_buf[i] + delta_count,
            !.sum_delta_ms    = st.sum_delta_ms - st.delta_ms_buf[i] + slot,
            !.delta_count_buf = [st.delta_count_buf EXCEPT ![i] = delta_count],
            !.delta_ms_buf    = [st.delta_ms_buf EXCEPT ![i] = slot],
            !.buf_index       = next,
            !.buf_count       = IF st.buf_count < BUF_N THEN st.buf_count + 1
                                ELSE st.buf_count]

\* the trim loop: while the sum exceeds the window and more than one sample
\* is counted, subtract and zero the slot at buf_index and advance
RECURSIVE Enc_trim(_, _)
Enc_trim(st, window) ==
    IF st.sum_delta_ms > window /\ st.buf_count > 1
    THEN LET i    == st.buf_index
             next == IF i + 1 >= BUF_N THEN 0 ELSE i + 1
         IN  Enc_trim([st EXCEPT
                 !.sum_delta_count = st.sum_delta_count - st.delta_count_buf[i],
                 !.sum_delta_ms    = st.sum_delta_ms - st.delta_ms_buf[i],
                 !.delta_count_buf = [st.delta_count_buf EXCEPT ![i] = 0],
                 !.delta_ms_buf    = [st.delta_ms_buf EXCEPT ![i] = 0],
                 !.buf_index       = next,
                 !.buf_count       = st.buf_count - 1], window)
    ELSE st

\* the velocity of the window, or the last velocity when the window is empty
Enc_output(st, delta_count, delta_ms) ==
    IF st.sum_delta_ms = 0 THEN [ret |-> st.vel_rpm, st |-> st]
    ELSE LET rpm_est == Enc_rpm(st.sum_delta_count, st.sum_delta_ms)
         IN  [ret |-> rpm_est,
              st  |-> [st EXCEPT !.g_vel_raw_rpm = Enc_rpm(delta_count, delta_ms),
                                 !.vel_rpm = rpm_est]]

\* a call that records a sample and does not trim the window
Enc_sample_notrim(st, count, ms, delta_ms, window) ==
    LET delta_count == Enc_delta_count(count, st.prev_count)
        latched     == [st EXCEPT !.prev_ms = ms, !.prev_count = count]
        inserted    == Enc_insert(latched, delta_count, delta_ms)
    IN  Enc_output(inserted, delta_count, delta_ms)

\* a call that records a sample
Enc_sample(st, count, ms, delta_ms, window) ==
    LET delta_count == Enc_delta_count(count, st.prev_count)
        latched     == [st EXCEPT !.prev_ms = ms, !.prev_count = count]
        inserted    == Enc_insert(latched, delta_count, delta_ms)
        trimmed     == Enc_trim(inserted, window)
    IN  Enc_output(trimmed, delta_count, delta_ms)

\* the whole function: result and new state
Enc_call(st, raw, ms, window) ==
    LET count == ToInt16(raw)
    IN  IF st.prev_ms = 0 THEN Enc_init(st, count, ms)
        ELSE LET delta_ms == ms - st.prev_ms
             IN  IF delta_ms = 0 THEN Enc_dup(st, count, ms)
                 ELSE Enc_sample(st, count, ms, delta_ms, window)

\* which path a call takes
Enc_path(st, ms) ==
    IF st.prev_ms = 0 THEN "enc_init"
    ELSE IF ms - st.prev_ms = 0 THEN "enc_dup" ELSE "enc_sample"

(* ===================== Actions ===================== *)

CtlInit(configs) ==
    /\ \E c \in configs :
          /\ Kp = c.Kp /\ Ki = c.Ki /\ U_PER_RPM = c.U
          /\ ERR_DEADBAND_RPM = c.DB /\ INT_WINDOW_RPM = c.IW /\ I_CLAMP = c.IC
    /\ integrator = 0
    /\ last_update_ms = 0
    /\ first_call = 1

\* the globals of application.c and the observation variables
AppInit(starts) ==
    /\ reference = 2000 /\ velocity = 0 /\ control = 0
    /\ millisec \in starts
    /\ op = "init"
    /\ pre = [integrator |-> 0, last_update_ms |-> 0, first_call |-> 1, control |-> 0]
    /\ reset_seen = FALSE
    /\ acc = [n |-> -1, ref |-> 0, meas |-> 0, dt |-> 0]

\* PWM timer after board initialisation: compare registers at reset value
PwmInit(arrs) ==
    /\ ARR \in arrs
    /\ CCR1 = 0 /\ CCR2 = 0

\* encoder timer and estimator statics at program start
EncInit(windows) ==
    /\ CNT = 0
    /\ g_vel_window_ms \in windows
    /\ g_vel_raw_rpm = 0
    /\ prev_count = 0 /\ prev_ms = 0
    /\ delta_count_buf = [i \in 0..(BUF_N - 1) |-> 0]
    /\ delta_ms_buf = [i \in 0..(BUF_N - 1) |-> 0]
    /\ buf_index = 0 /\ buf_count = 0
    /\ sum_delta_count = 0 /\ sum_delta_ms = 0
    /\ vel_rpm = 0
    /\ enc_pre = [st |-> EncState, millisec |-> millisec, velocity |-> 0,
                  last_read |-> 0, dup_read |-> -1, CNT |-> 0]
    /\ enc_calls = 0
    /\ last_read = 0
    /\ dup_read = -1
    /\ scen = 0
    /\ hist = <<>>

\* the main thread about to enter Application_Loop for the first time
LoopInit(ticks) ==
    /\ tick \in ticks
    /\ pc = "wait1"
    /\ log = <<>>
    /\ inv_steps = 0

Init ==
    /\ CtlInit(Configs)
    /\ AppInit(StartMsSet)
    /\ PwmInit({999})
    /\ EncInit({40})
    /\ LoopInit({0})

\* the calls since the first call, counted while they repeat the same
\* reference, measurement and period
AccNext(a, path, ref, meas, dt) ==
    IF path = "pi_first" THEN [n |-> 0, ref |-> 0, meas |-> 0, dt |-> 0]
    ELSE IF path = "pi_run" /\ a.n = 0 THEN [n |-> 1, ref |-> ref, meas |-> meas, dt |-> dt]
    ELSE IF path = "pi_run" /\ a.n >= 1 /\ a.ref = ref /\ a.meas = meas /\ a.dt = dt
         THEN [a EXCEPT !.n = a.n + 1]
    ELSE [n |-> -1, ref |-> 0, meas |-> 0, dt |-> 0]

\* one call control = Controller_PIController(&reference, &velocity,
\* &millisec) with the given values, dt after the previous call
ControllerCall(ref, meas, dt) ==
    LET now  == millisec + dt
        r    == PI_call(CtlState, ref, meas, now)
        path == PI_path(CtlState, now)
    IN  /\ reference' = ref /\ velocity' = meas /\ millisec' = now
        /\ control' = r.ret
        /\ integrator' = r.integrator
        /\ last_update_ms' = r.last_update_ms
        /\ first_call' = r.first_call
        /\ op' = path
        /\ pre' = [integrator |-> integrator, last_update_ms |-> last_update_ms,
                   first_call |-> first_call, control |-> control]
        /\ acc' = AccNext(acc, path, ref, meas, dt)
        /\ UNCHANGED <<cfgvars, pwmvars, encvars, encobs, reset_seen>>

\* a caller invokes Controller_PIController(&reference, &velocity, &millisec)
\* with a time that never runs backwards
Controller_PIController ==
    \E rm \in InputSet, dt \in DtSet :
        /\ millisec + dt <= MaxMs
        /\ ControllerCall(rm[1], rm[2], dt)
        /\ UNCHANGED loopvars

Controller_Reset ==
    /\ integrator' = 0
    /\ last_update_ms' = 0
    /\ first_call' = 1
    /\ op' = "reset"
    /\ pre' = [integrator |-> integrator, last_update_ms |-> last_update_ms,
               first_call |-> first_call, control |-> control]
    /\ reset_seen' = (reset_seen \/ (first_call = 0 /\ integrator # 0))
    /\ acc' = [n |-> -1, ref |-> 0, meas |-> 0, dt |-> 0]
    /\ UNCHANGED <<cfgvars, appvars, pwmvars, encvars, encobs, loopvars>>

NextCtrl == Controller_PIController \/ Controller_Reset

SpecCtrl == Init /\ [][NextCtrl]_vars

(* ===================== The actuator on its own ===================== *)

InitPWM ==
    /\ CtlInit({DefaultConfig})
    /\ AppInit({0})
    /\ PwmInit(ARRSet)
    /\ EncInit({40})
    /\ LoopInit({0})

\* one call Peripheral_PWM_ActuateMotor(u)
ActuatorCall(u) ==
    LET r == PWM_compare(u, ARR)
    IN  /\ control' = u
        /\ CCR1' = r.CCR1
        /\ CCR2' = r.CCR2
        /\ op' = "actuate"
        /\ UNCHANGED <<cfgvars, ctlvars, reference, velocity, millisec,
                       ARR, encvars, encobs, pre, reset_seen, acc>>

\* a caller invokes Peripheral_PWM_ActuateMotor(control)
Peripheral_PWM_ActuateMotor ==
    \E u \in CtrlSet : ActuatorCall(u) /\ UNCHANGED loopvars

NextPWM == Peripheral_PWM_ActuateMotor

SpecPWM == InitPWM /\ [][NextPWM]_vars

(* ===================== The estimator on its own ===================== *)

InitEnc ==
    /\ CtlInit({DefaultConfig})
    /\ AppInit(EncStartMsSet)
    /\ PwmInit({999})
    /\ EncInit({40})
    /\ LoopInit({0})

\* the wrap scenario is followed when call number n + 1 reads the scenario's
\* next value, the first call initialises and every later call records
ScenNext(n, calls, count, path) ==
    IF /\ n = calls /\ n < Len(ScenarioReads)
       /\ count = ScenarioReads[n + 1]
       /\ path = (IF n = 0 THEN "enc_init" ELSE "enc_sample")
    THEN n + 1 ELSE 0

\* one call velocity = Peripheral_Encoder_CalculateVelocity(millisec) after
\* the counter has moved by step and the clock by dt
EncoderCall(step, dt) ==
    LET raw  == (CNT + step) % 65536
        ms   == millisec + dt
        path == Enc_path(EncState, ms)
        r    == Enc_call(EncState, raw, ms, g_vel_window_ms)
    IN  /\ CNT' = raw
        /\ millisec' = ms
        /\ velocity' = r.ret
        /\ prev_count' = r.st.prev_count
        /\ prev_ms' = r.st.prev_ms
        /\ delta_count_buf' = r.st.delta_count_buf
        /\ delta_ms_buf' = r.st.delta_ms_buf
        /\ buf_index' = r.st.buf_index
        /\ buf_count' = r.st.buf_count
        /\ sum_delta_count' = r.st.sum_delta_count
        /\ sum_delta_ms' = r.st.sum_delta_ms
        /\ vel_rpm' = r.st.vel_rpm
        /\ g_vel_raw_rpm' = r.st.g_vel_raw_rpm
        /\ op' = path
        /\ enc_pre' = [st |-> EncState, millisec |-> millisec,
                       velocity |-> velocity, last_read |-> last_read,
                       dup_read |-> dup_read, CNT |-> CNT]
        /\ enc_calls' = enc_calls + 1
        /\ last_read' = IF path = "enc_dup" THEN last_read ELSE raw
        /\ dup_read' = IF path = "enc_dup" THEN raw ELSE -1
        /\ scen' = ScenNext(scen, enc_calls, ToInt16(raw), path)
        /\ hist' = IF path = "enc_init" THEN <<>>
                   ELSE IF path = "enc_dup" THEN hist
                   ELSE Append(hist,
                               <<Enc_delta_count(ToInt16(raw), prev_count),
                                 Enc_delta_ms_slot(ms - prev_ms)>>)
        /\ UNCHANGED <<cfgvars, ctlvars, pwmvars, g_vel_window_ms,
                       reference, control, pre, reset_seen, acc>>

\* a caller invokes velocity = Peripheral_Encoder_CalculateVelocity(millisec)
\* with a time that never runs backwards; the counter has moved by some
\* step since the last call
Peripheral_Encoder_CalculateVelocity ==
    \E step \in StepSet, dt \in EncDtSet :
        LET raw == (CNT + step) % 65536
            ms  == millisec + dt
            sc  == ScenNext(scen, enc_calls, ToInt16(raw), Enc_path(EncState, ms))
        IN  /\ ms <= MaxEncMs
            /\ (enc_calls < MaxEncCalls \/ sc > 0)
            /\ EncoderCall(step, dt)
            /\ UNCHANGED loopvars

NextEnc == Peripheral_Encoder_CalculateVelocity

SpecEnc == InitEnc /\ [][NextEnc]_vars

(* ============ The estimator under a periodic caller ============ *)

InitEncLong ==
    /\ CtlInit({DefaultConfig})
    /\ AppInit({10})
    /\ PwmInit({999})
    /\ EncInit(LongWindowSet)
    /\ LoopInit({0})

\* a caller that settles, from its third call on, on the period and the
\* counter movement of its second call
PeriodicEncoderCall ==
    \E step \in StepSet, dt \in LongDtSet :
        /\ enc_calls < MaxLongCalls
        /\ (enc_calls >= 2 =>
                /\ dt = millisec - enc_pre.millisec
                /\ step = (CNT - enc_pre.CNT) % 65536)
        /\ EncoderCall(step, dt)
        /\ UNCHANGED loopvars

NextEncLong == PeriodicEncoderCall

SpecEncLong == InitEncLong /\ [][NextEncLong]_vars

(* ===================== The application loop ===================== *)

\* the state Application_Setup leaves, the estimator untouched since program
\* start, the tick at the value it has when the loop is first entered
InitApp ==
    /\ CtlInit({DefaultConfig})
    /\ AppInit({0})
    /\ PwmInit({999})
    /\ EncInit({40})
    /\ LoopInit(TickStartSet)

\* the hardware advances the millisecond tick, at any point of the loop;
\* the motor turns the encoder counter meanwhile
Tick ==
    /\ \E t0 \in TickStartSet : t0 <= tick /\ tick < t0 + MaxTicks
    /\ tick' = tick + 1
    /\ \E c \in CountsPerMsSet : CNT' = (CNT + c) % 65536
    /\ UNCHANGED <<cfgvars, ctlvars, appvars, pwmvars, g_vel_window_ms,
                   g_vel_raw_rpm, prev_count, prev_ms, delta_count_buf,
                   delta_ms_buf, buf_index, buf_count, sum_delta_count,
                   sum_delta_ms, vel_rpm, encobs, obsvars, pc, log, inv_steps>>

\* first operand of the wait condition: the tick read is off the period
OffPeriod(t) == t % PERIOD_CTRL > 0

\* a second operand that never holds the loop back
SameTick_never(t, ms) == FALSE

\* second operand of the wait condition: the tick read is the one serviced last
SameTick(t, ms) == t = ms

\* while ((Main_GetTickMillisec() % PERIOD_CTRL > 0) || ...: the first read;
\* when it is off the period the empty body runs and the condition is
\* evaluated again
LoopWait1 ==
    /\ pc = "wait1"
    /\ pc' = IF OffPeriod(tick) THEN "wait1" ELSE "wait2"
    /\ UNCHANGED <<cfgvars, ctlvars, appvars, pwmvars, encvars, encobs, obsvars,
                   tick, log, inv_steps>>

\* ... || (Main_GetTickMillisec() == millisec)): the second read
LoopWait2 ==
    /\ pc = "wait2"
    /\ pc' = IF SameTick(tick, millisec) THEN "wait1" ELSE "latch"
    /\ UNCHANGED <<cfgvars, ctlvars, appvars, pwmvars, encvars, encobs, obsvars,
                   tick, log, inv_steps>>

\* millisec = Main_GetTickMillisec(): the third read
LoopLatch ==
    /\ pc = "latch"
    /\ millisec' = tick
    /\ pc' = "flip"
    /\ UNCHANGED <<cfgvars, ctlvars, reference, velocity, control, pwmvars,
                   encvars, encobs, obsvars, tick, log, inv_steps>>

\* every 4 s flip the reference; then enter the control step every 10 ms
LoopFlip ==
    /\ pc = "flip"
    /\ reference' = IF millisec % PERIOD_REF = 0 THEN -reference ELSE reference
    /\ pc' = IF millisec % PERIOD_CTRL = 0 THEN "est" ELSE "ret"
    /\ UNCHANGED <<cfgvars, ctlvars, velocity, control, millisec, pwmvars,
                   encvars, encobs, obsvars, tick, log, inv_steps>>

\* velocity = Peripheral_Encoder_CalculateVelocity(millisec)
LoopEstimate ==
    /\ pc = "est"
    /\ EncoderCall(0, 0)
    /\ pc' = "ctl"
    /\ log' = Append(log, <<"est", millisec>>)
    /\ UNCHANGED <<tick, inv_steps>>

\* control = Controller_PIController(&reference, &velocity, &millisec)
LoopControl ==
    /\ pc = "ctl"
    /\ ControllerCall(reference, velocity, 0)
    /\ pc' = "act"
    /\ log' = Append(log, <<"ctl", millisec>>)
    /\ UNCHANGED <<tick, inv_steps>>

\* Peripheral_PWM_ActuateMotor(control)
LoopActuate ==
    /\ pc = "act"
    /\ ActuatorCall(control)
    /\ pc' = "ret"
    /\ log' = Append(log, <<"act", millisec>>)
    /\ inv_steps' = inv_steps + 1
    /\ UNCHANGED tick

\* Application_Loop returns and the infinite loop of main calls it again
LoopReturn ==
    /\ pc = "ret"
    /\ pc' = "wait1"
    /\ inv_steps' = 0
    /\ UNCHANGED <<cfgvars, ctlvars, appvars, pwmvars, encvars, encobs, obsvars,
                   tick, log>>

NextApp ==
    \/ Tick
    \/ LoopWait1
    \/ LoopWait2
    \/ LoopLatch
    \/ LoopFlip
    \/ LoopEstimate
    \/ LoopControl
    \/ LoopActuate
    \/ LoopReturn

SpecApp == InitApp /\ [][NextApp]_vars

(* ===================== Properties of the controller ===================== *)

PiOps == {"pi_first", "pi_dup", "pi_run"}

\* C1: the first call of Controller_PIController after program start or after
\* Controller_Reset (from any state) returns 0, stores now_ms in
\* last_update_ms, leaves integrator = 0 and clears first_call; every call
\* leaves the controller Running, so only that one call is forced to 0.
C1_FirstCallReturnsZero ==
    /\ (op = "init"  => first_call = 1 /\ integrator = 0)
    /\ (op = "reset" => first_call = 1 /\ integrator = 0 /\ last_update_ms = 0)
    /\ (op \in PiOps /\ pre.first_call = 1 =>
            /\ op = "pi_first"
            /\ control = 0
            /\ last_update_ms = millisec
            /\ integrator = 0)
    /\ (op \in PiOps => first_call = 0)
    /\ (op \in PiOps /\ pre.first_call = 0 => op # "pi_first")

\* a first call after a reset of a running controller whose integrator was
\* charged, at a time other than 0 and with a non-zero error
C1_Witness ==
    /\ op = "pi_first" /\ reset_seen
    /\ millisec # 0 /\ reference # velocity

\* C2: a call in the Running state with now_ms equal to the now_ms of the
\* preceding call returns the value the preceding call returned.
C2_DuplicateTickReturnsPrevious ==
    (op \in PiOps /\ pre.first_call = 0 /\ millisec = pre.last_update_ms) =>
        control = pre.control

\* C3: a call in the Running state with now_ms = last_update_ms leaves
\* integrator, last_update_ms and first_call as they were.
C3_DuplicateTickKeepsState ==
    (op \in PiOps /\ pre.first_call = 0 /\ millisec = pre.last_update_ms) =>
        /\ integrator = pre.integrator
        /\ last_update_ms = pre.last_update_ms
        /\ first_call = pre.first_call

\* a duplicate tick on a controller whose integrator is charged
C3_Witness ==
    /\ op \in PiOps /\ pre.first_call = 0 /\ millisec = pre.last_update_ms
    /\ pre.integrator # 0 /\ reference # velocity

\* C4 as stated: every returned value u has |u| <= 2^30 - 1.
C4_OutputMagnitude ==
    op \in PiOps => iabs32(control) <= CTRL_MAX

\* C4 amended: every returned value u has -2^30 <= u <= 2^30 - 1.
C4_OutputRange ==
    op \in PiOps => (CTRL_MIN <= control /\ control <= CTRL_MAX)

\* a call whose unsaturated sum lies below CTRL_MIN
C4_Witness ==
    op = "pi_run" /\ control = CTRL_MIN

\* C5: |integrator| <= I_CLAMP in every reachable state.
C5_IntegratorBound ==
    I_CLAMP >= 0 /\ -I_CLAMP <= integrator /\ integrator <= I_CLAMP

\* a call whose integrator update was cut back to the clamp
C5_Witness ==
    op = "pi_run" /\ integrator = I_CLAMP /\ pre.integrator < I_CLAMP

(* ===================== Properties of the actuator ===================== *)

\* C6: after Peripheral_PWM_ActuateMotor(u), for every u and every ARR >= 1,
\* both compare registers are in [0, ARR] and at least one of them is 0.
C6_ActuatorOutputSafe ==
    (op = "actuate" /\ ARR >= 1) =>
        /\ 0 <= CCR1 /\ CCR1 <= ARR
        /\ 0 <= CCR2 /\ CCR2 <= ARR
        /\ (CCR1 = 0 \/ CCR2 = 0)

\* a control value below CTRL_MIN drives the full duty
C6_Witness ==
    op = "actuate" /\ control < CTRL_MIN /\ CCR1 = ARR /\ ARR >= 1

\* duty(m) = min((m * (ARR+1)) >> 30, ARR); for m >= 2^30 the shifted
\* product is at least ARR + 1, so the minimum is ARR
DutyOfMagnitude(m) ==
    IF m >= CTRL_MAG_MAX THEN ARR
    ELSE LET d == MulShr30(m, ARR + 1) IN IF d < ARR THEN d ELSE ARR

\* C7: u > 0 writes CCR1 = 0, CCR2 = duty(u); u < 0 writes CCR1 = duty(|u|),
\* CCR2 = 0; u = 0 writes both 0; the duty written for u is the duty written
\* for -u when u is in (CTRL_MIN, CTRL_MAX]; u = CTRL_MIN writes ARR on CCR1
\* (999 for ARR = 999, as CTRL_MAX does on CCR2).
C7_ActuatorPolarity ==
    op = "actuate" =>
        /\ (control > 0 => CCR1 = 0 /\ CCR2 = DutyOfMagnitude(control))
        /\ (control < 0 => CCR1 = DutyOfMagnitude(-control) /\ CCR2 = 0)
        /\ (control = 0 => CCR1 = 0 /\ CCR2 = 0)
        /\ (CTRL_MIN < control /\ control <= CTRL_MAX =>
                LET other == PWM_compare(-control, ARR)
                IN  CCR1 + CCR2 = other.CCR1 + other.CCR2)
        /\ (control = CTRL_MIN => CCR1 = ARR)
        /\ (ARR = 999 /\ control = CTRL_MIN => CCR1 = 999 /\ CCR2 = 0)
        /\ (ARR = 999 /\ control = CTRL_MAX => CCR1 = 0 /\ CCR2 = 999)

\* a negative control value that drives a partial duty on CCR1
C7_Witness ==
    /\ op = "actuate" /\ control < 0 /\ control > CTRL_MIN
    /\ CCR1 > 0 /\ CCR1 < ARR /\ CCR2 = 0

(* ===================== Properties of the estimator ===================== *)

EncOps == {"enc_init", "enc_dup", "enc_sample"}

\* d is x reduced modulo 2^16 into [-32768, 32767]
IsReduced16(d, x) ==
    /\ -32768 <= d /\ d <= 32767
    /\ (d - x) % 65536 = 0

\* the delta_count the last call stored in the ring buffer
RecordedDelta == delta_count_buf[enc_pre.st.buf_index]

\* C8: the first call returns 0 for every count and every ms, records no
\* sample and latches prev_count and prev_ms, so that the second call, made
\* with a different ms, measures its delta from the latched values.
C8_EstimatorFirstCall ==
    /\ (op \in EncOps /\ enc_calls = 1 =>
            /\ velocity = 0
            /\ buf_count = 0 /\ sum_delta_count = 0 /\ sum_delta_ms = 0
            /\ prev_count = ToInt16(CNT)
            /\ prev_ms = millisec)
    /\ (op \in EncOps /\ enc_calls = 2 /\ millisec # enc_pre.millisec =>
            /\ buf_count = 1
            /\ IsReduced16(delta_count_buf[0], ToInt16(CNT) - enc_pre.st.prev_count)
            /\ delta_ms_buf[0] = millisec - enc_pre.millisec)

C10_EncoderWrap ==
    /\ (op = "enc_sample" =>
            IsReduced16(RecordedDelta, ToInt16(CNT) - ToInt16(enc_pre.last_read)))
    /\ (op = "enc_sample" /\ ToInt16(enc_pre.last_read) = 32760
           /\ ToInt16(CNT) = -32760 => RecordedDelta = 16)
    /\ (scen >= 2 => RecordedDelta = ScenarioDeltas[scen - 1])

\* the whole wrap scenario has been read
C10_Witness ==
    scen = Len(ScenarioReads) /\ op = "enc_sample" /\ ToInt16(CNT) = -32660

\* sum of component k over a sequence of samples
RECURSIVE SumOf(_, _)
SumOf(samples, k) ==
    IF samples = <<>> THEN 0 ELSE Head(samples)[k] + SumOf(Tail(samples), k)

\* the n most recent samples
MostRecent(samples, n) == SubSeq(samples, Len(samples) - n + 1, Len(samples))

\* every recorded sample spans 10 ms
ConstantPeriod == \A i \in 1..Len(hist) : hist[i][2] = 10

\* C11: after every call that records a sample the velocity window is a
\* suffix of the sample history: sum_delta_count and sum_delta_ms are the
\* sums over exactly the buf_count most recent samples (so every sample the
\* trim dropped was the oldest one), the window totals at most
\* g_vel_window_ms unless it is a single sample, and the returned velocity
\* is trunc(60000 * sum dx / (2048 * sum dt)) over that window; at a
\* constant 10 ms period with a 40 ms window that is over at most the 4 most
\* recent samples, from the 5th sample onwards too.
C11_WindowIsSuffix ==
    op = "enc_sample" =>
        /\ buf_count >= 1 /\ buf_count <= Len(hist)
        /\ sum_delta_count = SumOf(MostRecent(hist, buf_count), 1)
        /\ sum_delta_ms = SumOf(MostRecent(hist, buf_count), 2)
        /\ (sum_delta_ms <= g_vel_window_ms \/ buf_count = 1)
        /\ velocity = TruncDiv(SumOf(MostRecent(hist, buf_count), 1) * 1875,
                               64 * SumOf(MostRecent(hist, buf_count), 2))
        /\ (ConstantPeriod /\ g_vel_window_ms = 40 =>
                buf_count = (IF Len(hist) < 4 THEN Len(hist) ELSE 4))

\* C12: after every call of the estimator, with a fixed positive window,
\* sum_delta_ms <= g_vel_window_ms or the window is a single sample
\* (buf_count = 1), and 0 <= buf_count <= 32 and 0 <= buf_index < 32.
C12_EstimatorRest ==
    op \in EncOps =>
        /\ (sum_delta_ms <= g_vel_window_ms \/ buf_count = 1)
        /\ 0 <= buf_count /\ buf_count <= BUF_N
        /\ 0 <= buf_index /\ buf_index < BUF_N

\* a sample whose trim loop ran and took buf_index around the end of the ring
C12_Witness ==
    /\ op = "enc_sample"
    /\ enc_pre.st.sum_delta_ms + delta_ms_buf[enc_pre.st.buf_index] > g_vel_window_ms
    /\ buf_index < enc_pre.st.buf_index
    /\ buf_count = 1

\* C13: the estimator never re-initialises: once it holds history (it was
\* initialised and has recorded a sample) no call takes the initialisation
\* path, and every call whose ms differs from the previous call's ms
\* records a sample on top of the history kept so far, also when the tick
\* wraps and a call carries ms = 0.
C13_NeverReinitialises ==
    op \in EncOps /\ enc_pre.st.buf_count >= 1 =>
        /\ op # "enc_init"
        /\ buf_count >= 1
        /\ (millisec # enc_pre.millisec =>
                /\ op = "enc_sample"
                /\ Len(hist) >= 2
                /\ prev_ms = millisec)

(* ============ Properties of the control law ============ *)

\* the last operation was a controller call that was not the first one and
\* came with a new time
RunCall == op \in PiOps /\ pre.first_call = 0 /\ millisec # pre.last_update_ms

\* time elapsed since the previous call, the unsigned 32-bit difference
\* (the previous call stored its time in last_update_ms, C1 and C3)
DeltaMs == millisec - pre.last_update_ms

\* the error of the last call after the deadband
DeadbandedErr ==
    IF iabs32(reference - velocity) <= ERR_DEADBAND_RPM THEN 0
    ELSE reference - velocity

\* that error in Q15 of RPM_SCALE
ErrQ15 == clamp_q15(TruncDiv(DeadbandedErr * 32768, RPM_SCALE))

\* the integrator after one accumulation step from the value before the call
Accumulated ==
    clamp_i32(sat_ctrl(pre.integrator + TruncDiv(Ki * ErrQ15 * DeltaMs, 1000)),
              -I_CLAMP, I_CLAMP)

\* the candidate i_cand would drive the output further into saturation
Saturating(i_cand) ==
    LET u_cand == sat_ctrl(U_PER_RPM * reference) + sat_ctrl(Kp * ErrQ15) + i_cand
    IN  \/ (u_cand > CTRL_MAX /\ ErrQ15 > 0)
        \/ (u_cand < CTRL_MIN /\ ErrQ15 < 0)

\* the integrator candidate of the last call
Candidate ==
    IF iabs32(reference - velocity) <= INT_WINDOW_RPM THEN Accumulated
    ELSE pre.integrator

\* C14: anti-windup: in a call that is not the first and has delta_ms > 0,
\* if u_cand = ff + p + i_cand is above CTRL_MAX while err_q15 > 0, or below
\* CTRL_MIN while err_q15 < 0, the integrator is left unchanged; in every
\* other case it becomes i_cand.  So under repeated calls with the same
\* saturating inputs the magnitude of the integrator does not grow.
C14_AntiWindup ==
    RunCall =>
        /\ (Saturating(Candidate) =>
                /\ integrator = pre.integrator
                /\ iabs32(integrator) <= iabs32(pre.integrator))
        /\ (~Saturating(Candidate) => integrator = Candidate)

\* the same saturating inputs repeated: an accumulation step was refused
C14_Witness ==
    /\ RunCall /\ acc.n >= 2
    /\ Saturating(Candidate)
    /\ Candidate # pre.integrator
    /\ integrator = pre.integrator

\* percentages of the reference an integration window could be configured to
PctSet == {0, 10}

\* the integration window with a part proportional to the reference
PercentWindow(pct) ==
    LET rel == TruncDiv(iabs32(reference) * pct, 100)
    IN  IF INT_WINDOW_RPM >= rel THEN INT_WINDOW_RPM ELSE rel

\* C15 as stated: the integration window is max(ABS_INT_WINDOW_RPM,
\* (|ref| * INT_WINDOW_PCT) / 100), with INT_WINDOW_RPM as the absolute
\* part: beyond the window the integrator is unchanged by the call, within
\* it the candidate is clamp(sat_ctrl(integrator + Ki * err_q15 * delta_ms
\* / 1000), -I_CLAMP, +I_CLAMP).
C15_PercentWindowFreeze ==
    \A pct \in PctSet :
        RunCall =>
            /\ (iabs32(reference - velocity) > PercentWindow(pct) =>
                    integrator = pre.integrator)
            /\ (iabs32(reference - velocity) <= PercentWindow(pct) =>
                    integrator = (IF Saturating(Accumulated) THEN pre.integrator
                                  ELSE Accumulated))

\* C15: conditional integration freeze with the fixed window
\* INT_WINDOW_RPM: in a call where |ref - meas| > INT_WINDOW_RPM the
\* integrator is unchanged; where |ref - meas| <= INT_WINDOW_RPM the
\* candidate is clamp(sat_ctrl(integrator + Ki * err_q15 * delta_ms / 1000),
\* -I_CLAMP, +I_CLAMP), committed unless the anti-windup refuses it.
C15_FixedWindowFreeze ==
    RunCall =>
        /\ (iabs32(reference - velocity) > INT_WINDOW_RPM =>
                integrator = pre.integrator)
        /\ (iabs32(reference - velocity) <= INT_WINDOW_RPM =>
                integrator = (IF Saturating(Accumulated) THEN pre.integrator
                              ELSE Accumulated))

\* a charged integrator frozen by an error of more than the window that a
\* window of 10 percent of the reference would have let through
C15_Witness ==
    /\ RunCall /\ Ki > 0
    /\ pre.integrator # 0
    /\ iabs32(reference - velocity) > INT_WINDOW_RPM
    /\ iabs32(reference - velocity) <= PercentWindow(10)
    /\ integrator = pre.integrator

\* C16: the control law: a call that is not the first and has delta_ms > 0
\* returns sat_ctrl(sat_ctrl(U_PER_RPM * ref) + sat_ctrl(Kp * err_q15) +
\* integrator_after) with err_q15 = clamp_q15((err * 32768) / RPM_SCALE),
\* the division truncating and err the deadbanded ref - meas.  With Ki = 0,
\* U_PER_RPM = 0 and deadband 0 that is sat_ctrl(Kp * clamp_q15((r - m) *
\* 32768 / 4000)); with Kp = 1000, Ki = 0, U_PER_RPM = 99000 the call
\* pi(2000, 0, 10) after pi(2000, 0, 0) returns 214384000.
C16_ControlLaw ==
    /\ (RunCall =>
            control = sat_ctrl(sat_ctrl(U_PER_RPM * reference)
                               + sat_ctrl(Kp * ErrQ15) + integrator))
    /\ (RunCall /\ Ki = 0 /\ U_PER_RPM = 0 /\ ERR_DEADBAND_RPM = 0 =>
            control = sat_ctrl(Kp * clamp_q15(
                          TruncDiv((reference - velocity) * 32768, 4000))))
    /\ (RunCall /\ Kp = 1000 /\ Ki = 0 /\ U_PER_RPM = 99000
           /\ reference = 2000 /\ velocity = 0 => control = 214384000)

\* pi(2000, 0, 10) after the first call pi(2000, 0, 0) with the scenario gains
C16_Witness ==
    /\ RunCall /\ acc.n = 1
    /\ Kp = 1000 /\ Ki = 0 /\ U_PER_RPM = 99000
    /\ reference = 2000 /\ velocity = 0
    /\ pre.last_update_ms = 0 /\ millisec = 10
    /\ control = 214384000

\* C17: integral accumulation: with Kp = 0, U_PER_RPM = 0, Ki > 0 and a
\* constant error e, deadband < |e| <= window, after a reset, a first call
\* and N further calls delta_t apart the integrator is clamp(N * trunc(Ki *
\* err_q15 * delta_t / 1000), -I_CLAMP, +I_CLAMP), delta_t being the
\* unsigned 32-bit difference of the timestamps, also when they wrap.
C17_IntegralAccumulation ==
    (/\ acc.n >= 1
     /\ Kp = 0 /\ U_PER_RPM = 0 /\ Ki > 0
     /\ iabs32(acc.ref - acc.meas) > ERR_DEADBAND_RPM
     /\ iabs32(acc.ref - acc.meas) <= INT_WINDOW_RPM) =>
        integrator =
            clamp_i32(acc.n * TruncDiv(Ki * clamp_q15(TruncDiv(
                                  (acc.ref - acc.meas) * 32768, RPM_SCALE)) * acc.dt,
                               1000),
                      -I_CLAMP, I_CLAMP)

\* three accumulation steps of 32760 across the wrap of the tick, below the clamp
C17_Witness ==
    /\ acc.n = 3 /\ acc.dt = 10
    /\ Kp = 0 /\ U_PER_RPM = 0 /\ Ki = 4000
    /\ acc.ref - acc.meas = 100
    /\ millisec - 30 < 0 /\ millisec >= 0
    /\ integrator = 98280 /\ integrator < I_CLAMP

\* C18: deadband: in a call with |ref - meas| <= ERR_DEADBAND_RPM the error
\* is taken as 0: the integrator is unchanged and the result is
\* sat_ctrl(sat_ctrl(U_PER_RPM * ref) + integrator); with U_PER_RPM = 0 and
\* integrator = 0 (pi(100, 95, t) with deadband 10 after a reset) it is 0.
C18_Deadband ==
    /\ (RunCall /\ iabs32(reference - velocity) <= ERR_DEADBAND_RPM =>
            /\ integrator = pre.integrator
            /\ control = sat_ctrl(sat_ctrl(U_PER_RPM * reference) + integrator))
    /\ (RunCall /\ reference = 100 /\ velocity = 95 /\ ERR_DEADBAND_RPM = 10
           /\ U_PER_RPM = 0 /\ pre.integrator = 0 => control = 0)

\* pi(100, 95, t) inside a deadband of 10 with a charged integrator and Ki > 0
C18_Witness ==
    /\ RunCall
    /\ reference = 100 /\ velocity = 95 /\ ERR_DEADBAND_RPM = 10
    /\ Ki > 0 /\ pre.integrator # 0
    /\ integrator = pre.integrator

(* ============ Properties of the application loop ============ *)

\* position 1, 2 or 3 of the i-th call within its control step
StageOf(i) == ((i - 1) % 3) + 1

\* C19: single fire and monotone timestamps: over any sequence of
\* Application_Loop invocations after Application_Setup, the tick advancing
\* asynchronously and monotonically, the control step (estimator, then
\* controller, then actuator, all with the same millisec) is executed only
\* for timestamps that are multiples of PERIOD_CTRL, at most once per
\* timestamp and with strictly increasing timestamps, and the controller
\* never sees a duplicate tick from the loop.
C19_SingleFire ==
    /\ \A i \in 1..Len(log) :
          /\ log[i][1] = <<"est", "ctl", "act">>[StageOf(i)]
          /\ log[i][2] % PERIOD_CTRL = 0
          /\ log[i][2] = log[i - (StageOf(i) - 1)][2]
          /\ (i > 3 => log[i - 3][2] < log[i][2])
    /\ (op \in PiOps /\ pre.first_call = 0 => millisec # pre.last_update_ms)
    /\ op # "pi_dup"

\* two control steps done while the tick ran on during the second
C19_Witness ==
    /\ Len(log) = 6 /\ pc = "ret"
    /\ log[4][2] = log[1][2] + PERIOD_CTRL
    /\ op = "actuate"
    /\ tick > millisec

\* C20: no missed control step: every invocation of Application_Loop that
\* returns has executed the step estimator, controller, actuator exactly
\* once, at a 10 ms boundary, also when the tick advances between any two
\* of the loop's reads of Main_GetTickMillisec.
C20_NoMissedStep ==
    pc = "ret" =>
        /\ inv_steps = 1
        /\ millisec % PERIOD_CTRL = 0
        /\ Len(log) >= 3
        /\ log[Len(log)] = <<"act", millisec>>

====
